---- MODULE Spec2Model ----
(***************************************************************************)
(* The dock engine of swaydgets (src/src/dock.rs): the visibility          *)
(* controller (detector enter, dock leave, deferred hide callbacks), the   *)
(* compositor event listener thread, the shared window registry behind a  *)
(* mutex, and the periodic renderer.                                       *)
(*                                                                         *)
(* Time is counted in ticks; a glib timeout is a countdown that may fire   *)
(* at or after the tick on which it reaches zero.                          *)
(***************************************************************************)
EXTENDS Integers, Sequences, FiniteSets, TLC

\* ------------------------------------------------------------------ bounds
\* hide_timeout in ticks (config.rs sets 300 ms by default; one tick = 300 ms)
HideTimeout == 1
\* the most hide callbacks pending at once
MaxTimers == 2

\* ------------------------------------------------------- visibility state
VARIABLES
  visible,   \* dock_window is shown (show_all) or hidden (hide)
  pointer,   \* where the pointer is: "outside", "detector" or "dock"
  timers,    \* pending hide callbacks, in arming order
  last       \* the most recent UI callback: which one (h), its crossing
             \* detail or, for a click, the command it sent (detail),
             \* whether the dock was visible when it ran (was) and, for a
             \* hide callback, whether the pointer had come back to the
             \* detector before it was due (re)

visVars == <<visible, pointer, timers, last>>

\* gdk::NotifyType, the crossing detail of a leave event
NotifyTypes ==
  {"Ancestor", "Virtual", "Inferior", "Nonlinear", "NonlinearVirtual", "Unknown"}

\* mutant: every leave but the one towards a child widget schedules the hide
QualifyingNotInferior(detail) == detail # "Inferior"

\* the condition of the leave handler: the pointer left the window hierarchy
Qualifying(detail) ==
  \/ detail = "Nonlinear"
  \/ detail = "NonlinearVirtual"
  \/ detail = "Ancestor"

\* a pending callback is [rem, reentered]: the ticks left before it is due,
\* and (history) whether the pointer entered the detector before it was due

RemoveAt(s, i) == SubSeq(s, 1, i - 1) \o SubSeq(s, i + 1, Len(s))

\* glib::timeout_add_local(Duration::from_millis(hide_delay), ...)
timeout_add_local(ts) == Append(ts, [rem |-> HideTimeout, reentered |-> FALSE])

\* history only: note on every callback not yet due that the pointer came back
MarkReentered(ts) ==
  [i \in DOMAIN ts |->
     IF ts[i].rem > 0 THEN [ts[i] EXCEPT !.reentered = TRUE] ELSE ts[i]]

InitVis ==
  /\ visible = FALSE
  /\ pointer = "outside"
  /\ timers = <<>>
  /\ last = [h |-> "none", detail |-> "-", was |-> FALSE, re |-> FALSE]

\* mutant: the enter handler logs and returns without show_all()
EnterNotifyNoShow ==
  /\ pointer = "outside"
  /\ pointer' = "detector"
  /\ visible' = visible
  /\ timers' = MarkReentered(timers)
  /\ last' = [h |-> "enter", detail |-> "-", was |-> visible, re |-> FALSE]

\* detection_window.connect_enter_notify_event: show the dock. Nothing here
\* touches the pending callbacks.
EnterNotify ==
  /\ pointer = "outside"
  /\ pointer' = "detector"
  /\ visible' = TRUE
  /\ timers' = MarkReentered(timers)
  /\ last' = [h |-> "enter", detail |-> "-", was |-> visible, re |-> FALSE]

\* the pointer leaves the detector strip; no handler is connected
LeaveDetector ==
  /\ pointer = "detector"
  /\ pointer' = "outside"
  /\ UNCHANGED <<visible, timers, last>>

\* the pointer moves onto the shown dock; no handler is connected
EnterDock ==
  /\ pointer \in {"outside", "detector"}
  /\ visible
  /\ pointer' = "dock"
  /\ UNCHANGED <<visible, timers, last>>

\* a leave handler that hides the dock at once on a qualifying leave
LeaveNotifyHides(detail) ==
  /\ pointer = "dock"
  /\ IF Qualifying(detail)
       THEN /\ Len(timers) < MaxTimers
            /\ timers' = timeout_add_local(timers)
            /\ pointer' = "outside"
            /\ visible' = FALSE
       ELSE /\ timers' = timers
            /\ pointer' = "dock"
            /\ visible' = visible
  /\ last' = [h |-> "leave", detail |-> detail, was |-> visible, re |-> FALSE]

\* dock_window.connect_leave_notify_event
LeaveNotify(detail) ==
  /\ pointer = "dock"
  /\ IF Qualifying(detail)
       THEN /\ Len(timers) < MaxTimers
            /\ timers' = timeout_add_local(timers)
            /\ pointer' = "outside"
       ELSE /\ timers' = timers
            /\ pointer' = "dock"
  /\ visible' = visible
  /\ last' = [h |-> "leave", detail |-> detail, was |-> visible, re |-> FALSE]

\* mutant: the callback runs and is removed, but never calls hide()
HideCallbackNoHide(i) ==
  /\ i \in DOMAIN timers
  /\ timers[i].rem = 0
  /\ visible' = visible
  /\ timers' = RemoveAt(timers, i)
  /\ pointer' = pointer
  /\ last' = [h |-> "hide", detail |-> "-", was |-> visible,
              re |-> timers[i].reentered]

\* the closure given to timeout_add_local: window_clone.hide(); false
HideCallback(i) ==
  /\ i \in DOMAIN timers
  /\ timers[i].rem = 0
  /\ visible' = FALSE
  /\ timers' = RemoveAt(timers, i)
  /\ pointer' = IF pointer = "dock" THEN "outside" ELSE pointer
  /\ last' = [h |-> "hide", detail |-> "-", was |-> visible,
              re |-> timers[i].reentered]

\* one tick passes: every callback not yet due gets one tick closer
Tick ==
  /\ \E i \in DOMAIN timers : timers[i].rem > 0
  /\ timers' = [i \in DOMAIN timers |->
                  IF timers[i].rem > 0
                    THEN [timers[i] EXCEPT !.rem = @ - 1]
                    ELSE timers[i]]
  /\ UNCHANGED <<visible, pointer, last>>

\* the main loop dispatches one hide callback that is due
HideFires == \E i \in DOMAIN timers : HideCallback(i)

\* ------------------------------------------------ window tree extraction
\* Option<T>: None is <<>>, Some(x) is <<x>>
None == <<>>
Some(x) == <<x>>
is_some(o) == Len(o) > 0
is_none(o) == Len(o) = 0

\* text whose letters matter (application identifiers) is a sequence of
\* one-letter strings; String::default() is the empty text
Firefox == <<"F", "i", "r", "e", "f", "o", "x">>
Xterm == <<"x", "t", "e", "r", "m">>
Code == <<"c", "o", "d", "e">>

\* a swayipc::Node, with the fields extract_windows reads
MkNode(id, ty, name, app, props, foc, kids, floats) ==
  [id |-> id, node_type |-> ty, name |-> name, app_id |-> app,
   window_properties |-> props, focused |-> foc,
   nodes |-> kids, floating_nodes |-> floats]

Leaf(id, name, app, props, foc) ==
  MkNode(id, "Con", name, app, props, foc, <<>>, <<>>)

RootOf(workspaceKids, workspaceFloats) ==
  MkNode(101, "Root", Some("root"), None, None, FALSE,
    << MkNode(102, "Output", Some("eDP-1"), None, None, FALSE,
         << MkNode(103, "Workspace", Some("1"), None, None, FALSE,
              workspaceKids, workspaceFloats) >>, <<>>) >>, <<>>)

\* no window open
TreeEmpty == RootOf(<<>>, <<>>)

\* two tiled windows, the second with an empty title
TreeTwo ==
  RootOf(<< Leaf(1, Some("Mozilla Firefox"), Some(Firefox), None, TRUE),
            Leaf(2, Some(""), Some(Xterm), None, FALSE) >>, <<>>)

\* a split container holding a window, an X11 window known by its class only,
\* and a floating window
TreeSplit ==
  RootOf(<< MkNode(20, "Con", None, None, None, FALSE,
              << Leaf(21, Some("main.rs"), Some(Code), None, FALSE) >>, <<>>),
            Leaf(22, Some("xclock"), None, Some([class |-> Some(Xterm)]), FALSE) >>,
         << MkNode(23, "FloatingCon", Some("float"), None, None, FALSE,
              << Leaf(24, Some("Picture"), Some(Firefox), None, TRUE) >>, <<>>) >>)

\* the trees the window manager moves between, by name
TreeNames == {"empty", "two", "split"}

TreeOf(name) ==
  CASE name = "empty" -> TreeEmpty
    [] name = "two" -> TreeTwo
    [] name = "split" -> TreeSplit

Trees == {TreeOf(name) : name \in TreeNames}

unwrap_or_default(o, default) == IF is_some(o) THEN o[1] ELSE default

\* the window properties' class before node.app_id
AppIdOfClassFirst(node) ==
  IF is_some(node.window_properties) /\ is_some(node.window_properties[1].class)
    THEN node.window_properties[1].class[1]
    ELSE unwrap_or_default(node.app_id, <<>>)

\* node.app_id, else the window properties' class, else ""
AppIdOf(node) ==
  IF is_some(node.app_id)
    THEN node.app_id[1]
    ELSE IF is_some(node.window_properties)
           THEN unwrap_or_default(node.window_properties[1].class, <<>>)
           ELSE <<>>

WindowInfo(node) ==
  [id |-> node.id,
   title |-> unwrap_or_default(node.name, ""),
   app_id |-> AppIdOf(node),
   focused |-> node.focused]

\* a test that takes a node for a window by its app_id alone
IsAppWindowByAppId(node) ==
  /\ node.node_type = "Con"
  /\ ~is_none(node.name)
  /\ is_some(node.app_id)

\* the test at the head of extract_windows
IsAppWindow(node) ==
  /\ node.node_type = "Con"
  /\ ~is_none(node.name)
  /\ (is_some(node.app_id) \/ is_some(node.window_properties))

RECURSIVE extract_floating_first(_, _)
RECURSIVE extract_each_floating_first(_, _)

\* a traversal that visits the floating children before the ordinary ones
extract_floating_first(node, windows) ==
  LET pushed == IF IsAppWindow(node)
                  THEN Append(windows, WindowInfo(node))
                  ELSE windows
  IN extract_each_floating_first(node.nodes,
       extract_each_floating_first(node.floating_nodes, pushed))

extract_each_floating_first(children, windows) ==
  IF children = <<>>
    THEN windows
    ELSE extract_each_floating_first(Tail(children),
           extract_floating_first(Head(children), windows))

RECURSIVE extract_windows(_, _)
RECURSIVE extract_each(_, _)

\* extract_windows(node, windows): the list after visiting node's subtree
extract_windows(node, windows) ==
  LET pushed == IF IsAppWindow(node)
                  THEN Append(windows, WindowInfo(node))
                  ELSE windows
  IN extract_each(node.floating_nodes, extract_each(node.nodes, pushed))

\* for child in children { extract_windows(child, windows) }
extract_each(children, windows) ==
  IF children = <<>>
    THEN windows
    ELSE extract_each(Tail(children), extract_windows(Head(children), windows))

\* ------------------------------------------------------------ icon table
Upper == <<"A", "B", "C", "D", "E", "F", "G", "H", "I", "J", "K", "L", "M",
           "N", "O", "P", "Q", "R", "S", "T", "U", "V", "W", "X", "Y", "Z">>
Lower == <<"a", "b", "c", "d", "e", "f", "g", "h", "i", "j", "k", "l", "m",
           "n", "o", "p", "q", "r", "s", "t", "u", "v", "w", "x", "y", "z">>

LowerChar(c) ==
  IF \E k \in DOMAIN Upper : Upper[k] = c
    THEN Lower[CHOOSE k \in DOMAIN Upper : Upper[k] = c]
    ELSE c

\* str::to_lowercase
to_lowercase(s) == [i \in DOMAIN s |-> LowerChar(s[i])]

\* str::contains
contains(s, pat) ==
  \E k \in 0..(Len(s) - Len(pat)) : SubSeq(s, k + 1, k + Len(pat)) = pat

\* a table looked up without lowering the identifier
get_icon_case_sensitive(app_id) ==
  LET id == app_id
  IN IF contains(id, <<"f", "i", "r", "e", "f", "o", "x">>) THEN "firefox"
     ELSE IF contains(id, <<"c", "h", "r", "o", "m", "e">>) THEN "google-chrome"
     ELSE IF contains(id, <<"t", "e", "r", "m", "i", "n", "a", "l">>) THEN "terminal"
     ELSE IF contains(id, <<"c", "o", "d", "e">>) THEN "visual-studio-code"
     ELSE "application-x-executable"

get_icon_for_app(app_id) ==
  LET id == to_lowercase(app_id)
  IN IF contains(id, <<"f", "i", "r", "e", "f", "o", "x">>) THEN "firefox"
     ELSE IF contains(id, <<"c", "h", "r", "o", "m", "e">>) THEN "google-chrome"
     ELSE IF contains(id, <<"t", "e", "r", "m", "i", "n", "a", "l">>) THEN "terminal"
     ELSE IF contains(id, <<"c", "o", "d", "e">>) THEN "visual-studio-code"
     ELSE "application-x-executable"

\* ----------------------------------- get_icon_for_app on identifiers
\* the most pieces an identifier is made of
MaxPieces == 2

VARIABLES
  icon_arg,    \* an application identifier handed to get_icon_for_app
  icon_name    \* the icon name it returned

iconVars == <<icon_arg, icon_name>>

\* the pieces identifiers are made of
Pieces ==
  {<<"f", "i", "r", "e">>,
   <<"f", "o", "x">>,
   <<"F", "O", "X">>,
   <<"F", "i", "r", "e", "f", "o", "x">>,
   <<"c", "h", "r", "o", "m", "e">>,
   <<"C", "H", "R", "O", "M", "E">>,
   <<"T", "e", "r", "m", "i", "n", "a", "l">>,
   <<"c", "o", "d", "e">>,
   <<"o", "r", "g", ".">>,
   <<"x">>}

RECURSIVE Concats(_)
Concats(n) ==
  IF n = 0
    THEN {<<>>}
    ELSE Concats(n - 1) \cup {a \o p : a \in Concats(n - 1), p \in Pieces}

AppIds == Concats(MaxPieces)

InitIcon ==
  /\ icon_arg = <<>>
  /\ icon_name = get_icon_for_app(<<>>)

\* get_icon_for_app is called with the identifier a
Resolve(a) ==
  /\ icon_arg' = a
  /\ icon_name' = get_icon_for_app(a)

\* --------------------------------------- extract_windows on built trees
\* the most nodes below the root of a built tree
MaxNodes == 3

VARIABLES
  arg_node,     \* a tree handed to extract_windows
  out_windows   \* the list extract_windows made of it

extractVars == <<arg_node, out_windows>>

\* the child lists of a swayipc::Node
ChildLists == {"nodes", "floating_nodes"}

ChildrenOf(n, list) == IF list = "nodes" THEN n.nodes ELSE n.floating_nodes

\* the nodes of a tree, each by the steps <<list, index>> leading to it
RECURSIVE Paths(_)
Paths(n) ==
  {<<>>} \cup
  UNION {UNION {{<<<<list, i>>>> \o p : p \in Paths(ChildrenOf(n, list)[i])} :
                i \in DOMAIN ChildrenOf(n, list)} :
         list \in ChildLists}

RECURSIVE NodeAt(_, _)
NodeAt(n, p) ==
  IF p = <<>>
    THEN n
    ELSE NodeAt(ChildrenOf(n, p[1][1])[p[1][2]], Tail(p))

\* the tree n with child added at the end of a child list of the node at p
RECURSIVE AppendChild(_, _, _, _)
AppendChild(n, p, list, child) ==
  IF p = <<>>
    THEN IF list = "nodes"
           THEN [n EXCEPT !.nodes = Append(@, child)]
           ELSE [n EXCEPT !.floating_nodes = Append(@, child)]
    ELSE IF p[1][1] = "nodes"
           THEN [n EXCEPT !.nodes[p[1][2]] = AppendChild(@, Tail(p), list, child)]
           ELSE [n EXCEPT !.floating_nodes[p[1][2]] =
                             AppendChild(@, Tail(p), list, child)]

\* the nodes a tree is built of: a window with an app_id, a window with
\* window_properties only, a container with neither, a window without a
\* name, and a node that is not of type Con
NodeKinds == {"app", "props", "bare", "unnamed", "floating_con"}

NodeOfKind(kind, id) ==
  CASE kind = "app" -> Leaf(id, Some("w"), Some(Xterm), None, FALSE)
    [] kind = "props" -> Leaf(id, Some("w"), None, Some([class |-> None]), FALSE)
    [] kind = "bare" -> Leaf(id, Some("w"), None, None, FALSE)
    [] kind = "unnamed" -> Leaf(id, None, Some(Xterm), None, FALSE)
    [] kind = "floating_con" ->
         MkNode(id, "FloatingCon", Some("w"), Some(Xterm), None, FALSE, <<>>, <<>>)

\* node ids are unique in a tree: a child's id is made of its parent's id and
\* its place among the parent's children
ChildId(parent_id, list, i) ==
  parent_id * 20 + 2 * i - (IF list = "nodes" THEN 1 ELSE 0)

BareRoot == MkNode(1, "Root", Some("root"), None, None, FALSE, <<>>, <<>>)

InitExtract ==
  /\ arg_node = BareRoot
  /\ out_windows = extract_windows(BareRoot, <<>>)

\* a tree one node larger is handed to extract_windows
Grow(p, list, kind) ==
  /\ Cardinality(Paths(arg_node)) <= MaxNodes
  /\ LET parent == NodeAt(arg_node, p)
         i == Len(ChildrenOf(parent, list)) + 1
         grown == AppendChild(arg_node, p, list,
                              NodeOfKind(kind, ChildId(parent.id, list, i)))
     IN /\ arg_node' = grown
        /\ out_windows' = extract_windows(grown, <<>>)

\* the single nodes extract_windows is tried on: every combination of type,
\* name, app_id, window_properties and focus
ProbeNodes ==
  {MkNode(id, ty, name, app, props, foc, <<>>, <<>>) :
     id \in {7, 8}, ty \in {"Con", "Workspace"},
     name \in {None, Some(""), Some("w")},
     app \in {None, Some(Xterm)},
     props \in {None, Some([class |-> None]), Some([class |-> Some(Code)])},
     foc \in BOOLEAN}

\* a tree with the one node n below the root is handed to extract_windows
Probe(n) ==
  LET probed == [BareRoot EXCEPT !.nodes = <<n>>]
  IN /\ arg_node' = probed
     /\ out_windows' = extract_windows(probed, <<>>)

\* ------------------------------------------------ the layer-shell windows
\* config.edge; the windows and the box are built from it once and keep
\* their orientation, size, layer and anchors
VARIABLE edge

layoutVars == <<edge>>

EdgeConfigs == {"Left", "Right", "Top", "Bottom"}

\* EdgeConfig::to_edge
to_edge(e) ==
  CASE e = "Left" -> "Edge::Left"
    [] e = "Right" -> "Edge::Right"
    [] e = "Top" -> "Edge::Top"
    [] e = "Bottom" -> "Edge::Bottom"

\* an orientation that does not depend on the edge
OrientationVertical(e) == "Vertical"

\* the orientation the dimensions and the box are made for

OrientationOf(e) ==
  IF e \in {"Left", "Right"} THEN "Vertical" ELSE "Horizontal"

\* (width, height)
DimensionsOf(orientation) ==
  CASE orientation = "Horizontal" -> <<800, 60>>
    [] orientation = "Vertical" -> <<60, 800>>
    [] OTHER -> <<800, 60>>

\* set_anchor(config.edge.to_edge(), true) and the two edges across
AnchorsOf(e) ==
  {to_edge(e)} \cup
  (IF e \in {"Top", "Bottom"}
     THEN {"Edge::Left", "Edge::Right"}
     ELSE {"Edge::Top", "Edge::Bottom"})

DockWindow(e) ==
  LET dim == DimensionsOf(OrientationOf(e))
  IN [title |-> "Sway Dock", default_width |-> dim[1],
      default_height |-> dim[2], height_request |-> -1,
      layer |-> "Top", anchors |-> AnchorsOf(e)]

DetectionWindow(e) ==
  LET dim == DimensionsOf(OrientationOf(e))
  IN [title |-> "Dock Detector", default_width |-> dim[1],
      default_height |-> 1, height_request |-> 1,
      layer |-> "Overlay", anchors |-> AnchorsOf(e)]

\* Default for DockConfig
DefaultEdge == "Bottom"

\* the box holding the strip, the dock surface and the detector surface
dock_box == [orientation |-> OrientationOf(edge), spacing |-> 5]
dock_window == DockWindow(edge)
detection_window == DetectionWindow(edge)

InitLayout(e) == edge = e

\* what neither the controller nor the listener and renderer change
restVars == <<extractVars, layoutVars, iconVars>>

\* --------------------------------------- listener, registry and renderer
\* the most window events waiting on the subscription at once
MaxEvents == 1

VARIABLES
  tree,         \* the name of the window manager's current tree
  events,       \* window events waiting on the listener's subscription
  lpc,          \* where the listener thread is
  subscribed,   \* connection.subscribe returned Ok(events)
  fetched,      \* (history) the tree the latest successful get_tree returned
  window_list,  \* update_window_list's local list, built before locking
  windows,      \* the Vec behind the Mutex (the registry)
  lock,         \* who holds the Mutex: "free", "listener" or "ui"
  poisoned,     \* a holder unwound while holding the Mutex
  rpc,          \* where update_dock_ui is: "idle", "lock" or "iter"
  idx,          \* records the renderer's loop has passed
  read,         \* the records the loop has read, in the latest pass that
                \* got the guard
  strip         \* dock_box's children: one button per entry

syncVars == <<tree, events, lpc, subscribed, fetched, window_list, windows,
              lock, poisoned, rpc, idx, read, strip>>

\* a start with the registry already holding the windows of the tree
InitSyncFilled ==
  /\ tree \in TreeNames
  /\ events = 0
  /\ lpc = "connect"
  /\ subscribed = FALSE
  /\ fetched = "none"
  /\ window_list = <<>>
  /\ windows = extract_windows(TreeOf(tree), <<>>)
  /\ lock = "free"
  /\ poisoned = FALSE
  /\ rpc = "idle"
  /\ idx = 0
  /\ read = <<>>
  /\ strip = <<>>

InitSync ==
  /\ tree \in TreeNames
  /\ events = 0
  /\ lpc = "connect"
  /\ subscribed = FALSE
  /\ fetched = "none"
  /\ window_list = <<>>
  /\ windows = <<>>
  /\ lock = "free"
  /\ poisoned = FALSE
  /\ rpc = "idle"
  /\ idx = 0
  /\ read = <<>>
  /\ strip = <<>>

\* the window manager changes its tree and reports a window event to an
\* established subscription
WmChange ==
  /\ events < MaxEvents
  /\ \E t \in TreeNames \ {tree} : tree' = t
  /\ events' = IF subscribed THEN events + 1 ELSE events
  /\ UNCHANGED <<fetched, lpc, subscribed, window_list, windows, lock, poisoned,
                 rpc, idx, read, strip>>
  /\ UNCHANGED <<visVars, restVars>>

\* Connection::new().expect("Failed to connect to Sway"), before the first
\* snapshot and for every event: an Err panics the thread
ListenerConnect(ok) ==
  /\ lpc = "connect"
  /\ lpc' = IF ok THEN "get_tree" ELSE "panicked"
  /\ UNCHANGED <<fetched, tree, events, subscribed, window_list, windows, lock,
                 poisoned, rpc, idx, read, strip>>
  /\ UNCHANGED <<visVars, restVars>>

\* where the listener goes when update_window_list returns
AfterUpdate == IF subscribed THEN "recv" ELSE "subscribe"

\* an update that empties the registry when get_tree fails
ListenerGetTreeClears(ok) ==
  /\ lpc = "get_tree"
  /\ IF ok
       THEN /\ window_list' = extract_windows(TreeOf(tree), <<>>)
            /\ fetched' = tree
            /\ lpc' = "lock"
            /\ windows' = windows
       ELSE /\ window_list' = window_list
            /\ fetched' = fetched
            /\ lpc' = AfterUpdate
            /\ windows' = <<>>
  /\ UNCHANGED <<tree, events, subscribed, lock, poisoned,
                 rpc, idx, read, strip>>
  /\ UNCHANGED <<visVars, restVars>>

\* update_window_list: connection.get_tree() and the extraction, no lock held
ListenerGetTree(ok) ==
  /\ lpc = "get_tree"
  /\ IF ok
       THEN /\ window_list' = extract_windows(TreeOf(tree), <<>>)
            /\ fetched' = tree
            /\ lpc' = "lock"
       ELSE /\ window_list' = window_list
            /\ fetched' = fetched
            /\ lpc' = AfterUpdate
  /\ UNCHANGED <<tree, events, subscribed, windows, lock, poisoned,
                 rpc, idx, read, strip>>
  /\ UNCHANGED <<visVars, restVars>>

\* windows.lock().unwrap(): waits for the Mutex; a poisoned one panics
ListenerLock ==
  /\ lpc = "lock"
  /\ lock = "free"
  /\ IF poisoned
       THEN /\ lpc' = "panicked"
            /\ lock' = lock
       ELSE /\ lpc' = "replace"
            /\ lock' = "listener"
  /\ UNCHANGED <<fetched, tree, events, subscribed, window_list, windows, poisoned,
                 rpc, idx, read, strip>>
  /\ UNCHANGED <<visVars, restVars>>

\* a replace that also removes the children of the strip
ListenerReplaceClearsStrip ==
  /\ lpc = "replace"
  /\ windows' = window_list
  /\ strip' = <<>>
  /\ lock' = "free"
  /\ lpc' = AfterUpdate
  /\ UNCHANGED <<fetched, tree, events, subscribed, window_list, poisoned,
                 rpc, idx, read>>
  /\ UNCHANGED <<visVars, restVars>>

\* a replace that keeps the previous records and adds the new ones
ListenerReplaceExtend ==
  /\ lpc = "replace"
  /\ windows' = windows \o window_list
  /\ lock' = "free"
  /\ lpc' = AfterUpdate
  /\ UNCHANGED <<fetched, tree, events, subscribed, window_list, poisoned,
                 rpc, idx, read, strip>>
  /\ UNCHANGED <<visVars, restVars>>

\* *windows_guard = window_list; the guard is dropped at the end of the block
ListenerReplace ==
  /\ lpc = "replace"
  /\ windows' = window_list
  /\ lock' = "free"
  /\ lpc' = AfterUpdate
  /\ UNCHANGED <<fetched, tree, events, subscribed, window_list, poisoned,
                 rpc, idx, read, strip>>
  /\ UNCHANGED <<visVars, restVars>>

\* the thread unwinds while it holds the guard: std's Mutex is poisoned
ListenerUnwind ==
  /\ lpc = "replace"
  /\ poisoned' = TRUE
  /\ lock' = "free"
  /\ lpc' = "panicked"
  /\ UNCHANGED <<fetched, tree, events, subscribed, window_list, windows,
                 rpc, idx, read, strip>>
  /\ UNCHANGED <<visVars, restVars>>

\* mutant: a failed subscribe reconnects and starts over instead of ending
ListenerSubscribeRetry(ok) ==
  /\ lpc = "subscribe"
  /\ IF ok
       THEN /\ subscribed' = TRUE
            /\ lpc' = "recv"
       ELSE /\ subscribed' = FALSE
            /\ lpc' = "connect"
  /\ UNCHANGED <<fetched, tree, events, window_list, windows, lock, poisoned,
                 rpc, idx, read, strip>>
  /\ UNCHANGED <<visVars, restVars>>

\* connection.subscribe(&[EventType::Window]): Err is printed and the thread ends
ListenerSubscribe(ok) ==
  /\ lpc = "subscribe"
  /\ IF ok
       THEN /\ subscribed' = TRUE
            /\ lpc' = "recv"
       ELSE /\ subscribed' = FALSE
            /\ lpc' = "exited"
  /\ UNCHANGED <<fetched, tree, events, window_list, windows, lock, poisoned,
                 rpc, idx, read, strip>>
  /\ UNCHANGED <<visVars, restVars>>

\* swayipc::WindowChange, the subtype of a window event
WindowChanges ==
  {"new", "close", "focus", "title", "fullscreen_mode", "move", "floating",
   "urgent", "mark"}

\* the items of the event stream: Ok(Event::Window(change)) or Err
EventItems ==
  [is_ok : {TRUE}, change : WindowChanges] \cup [is_ok : {FALSE}, change : {"-"}]

\* a loop that updates the list for new windows only
ListenerRecvNewOnly(event) ==
  /\ lpc = "recv"
  /\ events > 0
  /\ events' = events - 1
  /\ lpc' = IF event.is_ok /\ event.change = "new" THEN "connect" ELSE "recv"
  /\ UNCHANGED <<fetched, tree, subscribed, window_list, windows, lock, poisoned,
                 rpc, idx, read, strip>>
  /\ UNCHANGED <<visVars, restVars>>

\* for event in events { if event.is_ok() { ... } }
ListenerRecv(event) ==
  /\ lpc = "recv"
  /\ events > 0
  /\ events' = events - 1
  /\ lpc' = IF event.is_ok THEN "connect" ELSE "recv"
  /\ UNCHANGED <<fetched, tree, subscribed, window_list, windows, lock, poisoned,
                 rpc, idx, read, strip>>
  /\ UNCHANGED <<visVars, restVars>>

\* a button that focuses the window of id 0
ButtonNoId(window) ==
  [window_id |-> 0, label |-> window.title,
   icon |-> get_icon_for_app(window.app_id)]

\* a button of the strip: the window it focuses, its label and its icon
Button(window) ==
  [window_id |-> window.id, label |-> window.title,
   icon |-> get_icon_for_app(window.app_id)]

\* the children one pass builds from a list of records: a button for each
\* record whose title is not empty, in order
Entries(ws) ==
  LET kept == SelectSeq(ws, LAMBDA w : w.title # "")
  IN [k \in DOMAIN kept |-> Button(kept[k])]

\* a pass that keeps the children of the pass before
RenderClearKeep ==
  /\ rpc = "idle"
  /\ strip' = strip
  /\ rpc' = "lock"
  /\ UNCHANGED <<fetched, tree, events, lpc, subscribed, window_list, windows, lock,
                 poisoned, idx, read>>
  /\ UNCHANGED <<visVars, restVars>>

\* update_dock_ui, entered from the 1000 ms timeout: remove every child
RenderClear ==
  /\ rpc = "idle"
  /\ strip' = <<>>
  /\ rpc' = "lock"
  /\ UNCHANGED <<fetched, tree, events, lpc, subscribed, window_list, windows, lock,
                 poisoned, idx, read>>
  /\ UNCHANGED <<visVars, restVars>>

\* mutant: the renderer iterates over the Vec without taking the Mutex
RenderLockNoGuard ==
  /\ rpc = "lock"
  /\ rpc' = "iter"
  /\ idx' = 0
  /\ read' = <<>>
  /\ UNCHANGED <<fetched, tree, events, lpc, subscribed, window_list, windows, lock,
                 poisoned, strip>>
  /\ UNCHANGED <<visVars, restVars>>

\* match windows.lock() { Ok(guard) => guard, Err(_) => return }
RenderLock ==
  /\ rpc = "lock"
  /\ lock = "free"
  /\ IF poisoned
       THEN /\ rpc' = "idle"
            /\ lock' = lock
            /\ UNCHANGED <<idx, read>>
       ELSE /\ rpc' = "iter"
            /\ lock' = "ui"
            /\ idx' = 0
            /\ read' = <<>>
  /\ UNCHANGED <<fetched, tree, events, lpc, subscribed, window_list, windows,
                 poisoned, strip>>
  /\ UNCHANGED <<visVars, restVars>>

\* a turn of the loop that makes a button of every record
RenderEntryNoSkip ==
  /\ rpc = "iter"
  /\ idx < Len(windows)
  /\ LET window == windows[idx + 1]
     IN /\ read' = Append(read, window)
        /\ strip' = Append(strip, Button(window))
  /\ idx' = idx + 1
  /\ UNCHANGED <<fetched, tree, events, lpc, subscribed, window_list, windows, lock,
                 poisoned, rpc>>
  /\ UNCHANGED <<visVars, restVars>>

\* one turn of for window in windows_guard.iter()
RenderEntry ==
  /\ rpc = "iter"
  /\ idx < Len(windows)
  /\ LET window == windows[idx + 1]
     IN /\ read' = Append(read, window)
        /\ strip' = IF window.title = ""
                      THEN strip
                      ELSE Append(strip, Button(window))
  /\ idx' = idx + 1
  /\ UNCHANGED <<fetched, tree, events, lpc, subscribed, window_list, windows, lock,
                 poisoned, rpc>>
  /\ UNCHANGED <<visVars, restVars>>

\* the loop is over: dock_box.show_all(), and the guard is dropped on return
RenderDone ==
  /\ rpc = "iter"
  /\ idx >= Len(windows)
  /\ lock' = "free"
  /\ rpc' = "idle"
  /\ UNCHANGED <<fetched, tree, events, lpc, subscribed, window_list, windows,
                 poisoned, idx, read, strip>>
  /\ UNCHANGED <<visVars, restVars>>

Listener ==
  \/ \E ok \in BOOLEAN : ListenerConnect(ok)
  \/ \E ok \in BOOLEAN : ListenerGetTree(ok)
  \/ ListenerLock
  \/ ListenerReplace
  \/ ListenerUnwind
  \/ \E ok \in BOOLEAN : ListenerSubscribe(ok)
  \/ \E event \in EventItems : ListenerRecv(event)

Renderer ==
  \/ RenderClear
  \/ RenderLock
  \/ RenderEntry
  \/ RenderDone

NextSync ==
  \/ WmChange
  \/ Listener
  \/ Renderer

\* the listener when every connection, fetch and subscribe returns Ok, every
\* item of the stream is an event and the thread does not unwind
ListenerOk ==
  \/ ListenerConnect(TRUE)
  \/ ListenerGetTree(TRUE)
  \/ ListenerLock
  \/ ListenerReplace
  \/ ListenerSubscribe(TRUE)
  \/ \E event \in EventItems : event.is_ok /\ ListenerRecv(event)

NextSyncOk ==
  \/ WmChange
  \/ ListenerOk
  \/ Renderer

\* the pointer callbacks and the hide callbacks run on the UI thread, between
\* two passes of update_dock_ui
UiIdle == rpc = "idle"

PointerEntersDetector == UiIdle /\ EnterNotify /\ UNCHANGED <<syncVars, restVars>>
PointerLeavesDetector == LeaveDetector /\ UNCHANGED <<syncVars, restVars>>
PointerEntersDock == EnterDock /\ UNCHANGED <<syncVars, restVars>>
PointerLeavesDock ==
  UiIdle /\ (\E detail \in NotifyTypes : LeaveNotify(detail)) /\ UNCHANGED <<syncVars, restVars>>
HideStep == UiIdle /\ HideFires /\ UNCHANGED <<syncVars, restVars>>
TickStep == Tick /\ UNCHANGED <<syncVars, restVars>>

\* format!("[con_id={}] focus", window_id)
FocusCommand(window_id) == "[con_id=" \o ToString(window_id) \o "] focus"

\* the clicked handler of the k-th button: if Connection::new() is Ok, one
\* run_command whose result is dropped
Click(k, conn_ok, cmd_ok) ==
  /\ k \in DOMAIN strip
  /\ last' = [h |-> "click",
              detail |-> IF conn_ok
                           THEN FocusCommand(strip[k].window_id)
                           ELSE "-",
              was |-> visible, re |-> FALSE]
  /\ UNCHANGED <<visible, pointer, timers>>

\* a button of the shown dock is clicked
ClickStep ==
  /\ UiIdle
  /\ visible
  /\ pointer = "dock"
  /\ \E k \in DOMAIN strip, conn_ok \in BOOLEAN, cmd_ok \in BOOLEAN :
       Click(k, conn_ok, cmd_ok)
  /\ UNCHANGED <<syncVars, restVars>>

Controller ==
  \/ PointerEntersDetector
  \/ PointerLeavesDetector
  \/ PointerEntersDock
  \/ PointerLeavesDock
  \/ HideStep
  \/ TickStep

\* extract_windows is handed a tree one node larger
ExtractStep ==
  /\ \E p \in Paths(arg_node), list \in ChildLists, kind \in NodeKinds :
       Grow(p, list, kind)
  /\ UNCHANGED <<visVars, syncVars, layoutVars, iconVars>>

\* extract_windows is handed a tree of one node
ProbeStep ==
  /\ \E n \in ProbeNodes : Probe(n)
  /\ UNCHANGED <<visVars, syncVars, layoutVars, iconVars>>

\* get_icon_for_app is called with an identifier
ResolveStep ==
  /\ \E a \in AppIds : Resolve(a)
  /\ UNCHANGED <<visVars, syncVars, layoutVars, extractVars>>

vars == <<visVars, syncVars, restVars>>

Init ==
  InitVis /\ InitSync /\ InitExtract /\ InitIcon /\ InitLayout(DefaultEdge)

\* the dock configured for any of the four edges
InitAnyEdge ==
  /\ InitVis /\ InitSync /\ InitExtract /\ InitIcon
  /\ \E e \in EdgeConfigs : InitLayout(e)

Next == Controller \/ NextSync \/ ClickStep

Spec == Init /\ [][Next]_vars

\* the visibility controller on its own
SpecVis == Init /\ [][Controller]_vars

\* the listener, the registry and the renderer on their own
SpecSync == Init /\ [][NextSync]_vars

\* the visibility controller with time passing and the main loop dispatching
\* every callback that is due
FairVis == SpecVis /\ WF_vars(TickStep) /\ WF_vars(HideStep)

\* the listener, the registry and the renderer when no call fails
SpecSyncOk == Init /\ [][NextSyncOk]_vars

\* the same with the listener thread running whenever it can, getting the
\* Mutex if it is free again and again, and the render timeout firing again
\* and again
FairSyncOk ==
  /\ SpecSyncOk
  /\ WF_vars(ListenerOk)
  /\ SF_vars(ListenerLock)
  /\ WF_vars(Renderer)
  /\ SF_vars(RenderLock)

\* extract_windows applied to every tree of up to MaxNodes nodes below the
\* root
SpecExtract == Init /\ [][ExtractStep]_vars

\* extract_windows applied to every single node of ProbeNodes
SpecRecord == Init /\ [][ProbeStep]_vars

\* get_icon_for_app applied to every identifier of AppIds
SpecIcon == Init /\ [][ResolveStep]_vars

\* the controller of a dock configured for any of the four edges
SpecLayout == InitAnyEdge /\ [][Controller]_vars

\* ------------------------------------------------------------------ claims

\* C1: a hide callback armed by a qualifying leave never hides the visible
\* dock once the pointer has re-entered the detector before the callback
\* was due (re-entry cancels the scheduled hide).
C1_ReentryCancelsHide == ~(last.h = "hide" /\ last.was /\ last.re)

\* the pointer has just left the visible dock with a qualifying detail
C2_JustLeft ==
  /\ visible
  /\ pointer = "outside"
  /\ last.h = "leave"
  /\ last.detail \in {"Nonlinear", "NonlinearVirtual", "Ancestor"}

\* C2: after a qualifying leave of the visible dock, the dock eventually is
\* hidden unless the pointer re-enters the detector; and a hidden dock is
\* shown again only by a detector enter, so the episode of one leave has
\* exactly one Visible-to-Hidden transition.
C2_HideHappens ==
  /\ C2_JustLeft ~> (~visible \/ pointer = "detector")
  /\ [][(~visible /\ visible') => (last'.h = "enter" /\ last' # last)]_vars

\* a hide callback has hidden the visible dock, with no re-entry before
C2_Witness ==
  /\ ~visible
  /\ last.h = "hide"
  /\ last.was
  /\ ~last.re
  /\ pointer = "outside"

\* C3: when a hide callback hides the visible dock, the deadline of the
\* latest qualifying leave has passed: no callback armed by a leave is
\* still short of its deadline.
C3_NoHideBeforeLatestDeadline ==
  (last.h = "hide" /\ last.was) => \A i \in DOMAIN timers : timers[i].rem = 0

\* C4: a leave whose crossing detail is none of Nonlinear, NonlinearVirtual,
\* Ancestor arms no hide callback and leaves the visibility unchanged.
C4_NonQualifyingLeaveIgnored ==
  [][\A detail \in NotifyTypes \ {"Nonlinear", "NonlinearVirtual", "Ancestor"} :
       LeaveNotify(detail) => (timers' = timers /\ visible' = visible)]_vars

\* a non-qualifying leave has run on the visible dock; nothing is armed
C4_Witness ==
  /\ last.h = "leave"
  /\ last.detail \in {"Virtual", "Inferior", "Unknown"}
  /\ visible
  /\ pointer = "dock"
  /\ timers = <<>>

\* C5: when the latest UI callback is a detector enter, the dock is visible:
\* the enter shows the dock in its own step, whatever the registry holds
\* and wherever the listener is.
C5_EnterShows == last.h = "enter" => visible

\* the detector was entered while the dock was hidden
C5_Witness ==
  /\ last.h = "enter"
  /\ ~last.was
  /\ visible
  /\ pointer = "detector"

\* every list an extraction pass can produce, and the initial empty list
Snapshots == {<<>>} \cup {extract_windows(t, <<>>) : t \in Trees}

\* C6: the registry always holds the initial empty list or one complete
\* extraction; what a render pass reads is a prefix of the list the registry
\* holds throughout the pass, and a finished pass has read one whole snapshot.
C6_RegistryAtomic ==
  /\ windows \in Snapshots
  /\ rpc = "iter" => read = SubSeq(windows, 1, idx)
  /\ rpc = "idle" => read \in Snapshots

\* the renderer is in the middle of a list while the listener waits with
\* another one
C6_Witness ==
  /\ rpc = "iter"
  /\ idx > 0
  /\ idx < Len(windows)
  /\ lpc = "lock"
  /\ window_list # windows

\* C7: the Mutex is not held during window-manager I/O nor while strip
\* entries are built: the listener holds it in no step but the replace, and
\* the renderer does not hold it once it has started building entries.
C7_LockOnlyForCopy ==
  /\ lock = "listener" => lpc = "replace"
  /\ lock = "ui" => strip = <<>>

\* C8: with the Mutex poisoned, the strip between two passes still shows the
\* entries of the last pass that read the registry.
C8_PoisonKeepsStrip == (poisoned /\ rpc = "idle") => strip = Entries(read)

\* C9: with the subscription established, the connection attempt made for an
\* event either succeeds or skips the event; the listener goes on to fetch
\* the tree or to wait for the next event.
C9_ReconnectFailureSwallowed ==
  [][(subscribed /\ lpc = "connect" /\ lpc' # lpc)
       => lpc' \in {"get_tree", "recv"}]_vars

\* C10: a failed subscribe ends the listener; from then on the listener
\* stays ended and the registry is never written again, the Mutex is free
\* of the listener, and the renderer can always take its next step.
C10_SubscribeFailureDegrades ==
  /\ [][(lpc = "subscribe" /\ lpc' # lpc /\ ~subscribed') => lpc' = "exited"]_vars
  /\ [][lpc = "exited" => (lpc' = "exited" /\ windows' = windows)]_vars
  /\ [](lpc = "exited" => (lock # "listener" /\ ENABLED Renderer))

\* the listener has ended after writing a snapshot, a later pass has drawn
\* it, and the dock has been shown
C10_Witness ==
  /\ lpc = "exited"
  /\ windows # <<>>
  /\ tree = "empty"
  /\ rpc = "idle"
  /\ strip = Entries(windows)
  /\ strip # <<>>
  /\ visible

\* the initial Connection::new() of the listener thread has failed
InitialConnectFailed == lpc = "panicked" /\ ~subscribed /\ ~poisoned

\* C11: once the initial connection has failed, the listener has fetched no
\* tree, written no registry and made no subscription, and the dock window
\* is never shown again.
C11_StartupFailureAbortsDock ==
  /\ [](InitialConnectFailed => (fetched = "none" /\ windows = <<>>))
  /\ [][InitialConnectFailed => ~(~visible /\ visible')]_vars

\* C12: every Ok item of the event stream, whatever its WindowChange, sends
\* the listener to a new connection; the registry is written by nothing but
\* the assignment of the list extracted from the fetched tree; and once an
\* update with a successful fetch is over, the registry is exactly the
\* extraction of the tree that update fetched.
C12_EveryEventReplaces ==
  /\ [][\A event \in EventItems :
          (ListenerRecv(event) /\ event.is_ok) => lpc' = "connect"]_vars
  /\ [][windows' # windows => (lpc = "replace" /\ windows' = window_list)]_vars
  /\ [](lpc \in {"lock", "replace"}
          => window_list = extract_windows(TreeOf(fetched), <<>>))
  /\ []((fetched # "none" /\ lpc \notin {"lock", "replace"} /\ ~poisoned)
          => windows = extract_windows(TreeOf(fetched), <<>>))

\* an event has been handled: the renderer had read the snapshot of the
\* initial update, and the registry now holds another non-empty snapshot,
\* the extraction of the tree fetched for the event
C12_Witness ==
  /\ subscribed
  /\ lpc = "recv"
  /\ events = 0
  /\ rpc = "idle"
  /\ read # <<>>
  /\ windows # <<>>
  /\ windows # read
  /\ fetched = tree
  /\ windows = extract_windows(TreeOf(fetched), <<>>)

\* the ids of the records of a list
IdsOf(ws) == {ws[i].id : i \in DOMAIN ws}

\* the nodes of the handed tree that are of type Con, have a name, and have
\* an app_id or window_properties
NamedWindowPaths ==
  {p \in Paths(arg_node) :
     LET n == NodeAt(arg_node, p)
     IN /\ n.node_type = "Con"
        /\ n.name # None
        /\ (n.app_id # None \/ n.window_properties # None)}

\* C13: the extracted list holds one record for each node of the tree that
\* is of type Con, is named and has an app_id or window_properties, wherever
\* in the tree the node is, and no record for any other node.
C13_ExtractionInclusion ==
  /\ IdsOf(out_windows) = {NodeAt(arg_node, p).id : p \in NamedWindowPaths}
  /\ Len(out_windows) = Cardinality(NamedWindowPaths)

\* a container with neither app_id nor window_properties is left out while
\* its child, a window known by its window_properties only, is in the list
C13_Witness ==
  \E p \in Paths(arg_node) :
    /\ Len(p) = 2
    /\ LET parent == NodeAt(arg_node, SubSeq(p, 1, 1))
           n == NodeAt(arg_node, p)
       IN /\ parent.node_type = "Con"
          /\ parent.name # None
          /\ parent.app_id = None
          /\ parent.window_properties = None
          /\ parent.id \notin IdsOf(out_windows)
          /\ n.app_id = None
          /\ n.window_properties # None
          /\ n.id \in IdsOf(out_windows)

\* step a comes before step b among the children of one node
StepBefore(a, b) ==
  \/ a[1] = "nodes" /\ b[1] = "floating_nodes"
  \/ a[1] = b[1] /\ a[2] < b[2]

\* the node at p comes before the node at q in depth-first pre-order: it is
\* an ancestor of it, or the two paths part at steps in that order
PreOrderBefore(p, q) ==
  \/ Len(p) < Len(q) /\ SubSeq(q, 1, Len(p)) = p
  \/ \E k \in 1..Len(p) :
       /\ k <= Len(q)
       /\ SubSeq(p, 1, k - 1) = SubSeq(q, 1, k - 1)
       /\ StepBefore(p[k], q[k])

PathOfId(id) == CHOOSE p \in Paths(arg_node) : NodeAt(arg_node, p).id = id

\* C14: the records of the extracted list, one per included node, stand in
\* depth-first pre-order (a node before its descendants, ordinary children
\* before floating children, a subtree before the next sibling); the tree
\* alone fixes which ids the list holds and in which order.
C14_ExtractionOrder ==
  /\ \A i, j \in DOMAIN out_windows :
       i < j => PreOrderBefore(PathOfId(out_windows[i].id),
                               PathOfId(out_windows[j].id))
  /\ IdsOf(out_windows) =
       {NodeAt(arg_node, p).id :
          p \in {q \in Paths(arg_node) : IsAppWindow(NodeAt(arg_node, q))}}

\* an included node with an included ordinary child and an included floating
\* child: the list is the node, the ordinary child, the floating child
C14_Witness ==
  \E p \in Paths(arg_node) :
    LET n == NodeAt(arg_node, p)
    IN /\ Len(n.nodes) = 1
       /\ Len(n.floating_nodes) = 1
       /\ [i \in DOMAIN out_windows |-> out_windows[i].id] =
            <<n.id, n.nodes[1].id, n.floating_nodes[1].id>>

\* the tree of two leaf windows has been fetched and its extraction is at
\* hand
TwoFetched == fetched = "two" /\ lpc = "lock"

\* a pass has gone through the whole registry, which holds the extraction of
\* the tree of two leaf windows
TwoRendered ==
  /\ rpc = "iter"
  /\ idx = Len(windows)
  /\ windows = extract_windows(TreeTwo, <<>>)

\* C15 as stated: of the two leaf windows, the one with the empty title is
\* not in the extracted list, which has the one record of id 1, and the
\* rendered strip has exactly one entry.
C15_EmptyTitleNotExtracted ==
  /\ TwoFetched => (Len(window_list) = 1 /\ window_list[1].id = 1)
  /\ TwoRendered => Len(strip) = 1

\* C15 amended: the extracted list has a record for each of the two windows,
\* the second (id 2) with the empty title, and the rendered strip has
\* exactly one entry, the one of id 1 with the firefox icon.
C15_EmptyTitleNotRendered ==
  /\ TwoFetched =>
       window_list =
         << [id |-> 1, title |-> "Mozilla Firefox", app_id |-> Firefox,
             focused |-> TRUE],
            [id |-> 2, title |-> "", app_id |-> Xterm, focused |-> FALSE] >>
  /\ TwoRendered =>
       strip = << [window_id |-> 1, label |-> "Mozilla Firefox",
                   icon |-> "firefox"] >>

\* both records are in the registry and a pass has drawn the one entry
C15_Witness ==
  /\ TwoRendered
  /\ Len(windows) = 2
  /\ windows[2].title = ""
  /\ Len(strip) = 1
  /\ strip[1].window_id = 1

\* C16: during a pass the strip holds the entries of the records passed so
\* far and nothing else; when the pass ends it holds one entry for each
\* registry record with a non-empty title, in registry order; and between
\* passes it keeps the entries of the records the last pass read.
C16_StripRebuiltFromRegistry ==
  /\ [](rpc = "iter" => strip = Entries(SubSeq(windows, 1, idx)))
  /\ [][RenderDone => (strip' = Entries(windows) /\ read' = windows)]_vars
  /\ []((rpc = "idle" /\ ~poisoned) => strip = Entries(read))

\* the registry holds the three records of the tree fetched for an event and
\* a pass over it has ended: the strip holds the three entries of this pass
C16_Witness ==
  /\ rpc = "idle"
  /\ fetched = "split"
  /\ tree = "split"
  /\ events = 0
  /\ subscribed
  /\ read = windows
  /\ Len(windows) = 3
  /\ strip = Entries(windows)
  /\ Len(strip) = 3

\* C17: each of the four edges gives one orientation, anchor set and size of
\* the dock window: Left and Right give Vertical, the edge with Top and
\* Bottom, 60 wide and 800 high; Top and Bottom give Horizontal, the edge
\* with Left and Right, 800 wide and 60 high.
C17_EdgeResolution ==
  /\ edge \in {"Left", "Right", "Top", "Bottom"}
  /\ edge \in {"Left", "Right"} =>
       /\ dock_box.orientation = "Vertical"
       /\ dock_window.default_width = 60
       /\ dock_window.default_height = 800
  /\ edge \in {"Top", "Bottom"} =>
       /\ dock_box.orientation = "Horizontal"
       /\ dock_window.default_width = 800
       /\ dock_window.default_height = 60
  /\ edge = "Left" =>
       dock_window.anchors = {"Edge::Left", "Edge::Top", "Edge::Bottom"}
  /\ edge = "Right" =>
       dock_window.anchors = {"Edge::Right", "Edge::Top", "Edge::Bottom"}
  /\ edge = "Top" =>
       dock_window.anchors = {"Edge::Top", "Edge::Left", "Edge::Right"}
  /\ edge = "Bottom" =>
       dock_window.anchors = {"Edge::Bottom", "Edge::Left", "Edge::Right"}

\* a dock configured for the top edge is shown: horizontal, 800 by 60
C17_Witness ==
  /\ edge = "Top"
  /\ visible
  /\ dock_box.orientation = "Horizontal"
  /\ dock_window.default_width = 800
  /\ dock_window.default_height = 60
  /\ "Edge::Top" \in dock_window.anchors

\* the size of a window across the configured edge, and along it
Thickness(window) ==
  IF edge \in {"Left", "Right"}
    THEN window.default_width
    ELSE window.default_height

LengthAlong(window) ==
  IF edge \in {"Left", "Right"}
    THEN window.default_height
    ELSE window.default_width

\* C18: the detector and the dock window have the same anchors and the same
\* length along the edge; across the edge the detector is 1 thick and the
\* dock 60.
C18_DetectorThinStrip ==
  /\ detection_window.anchors = dock_window.anchors
  /\ LengthAlong(detection_window) = LengthAlong(dock_window)
  /\ Thickness(detection_window) = 1
  /\ Thickness(dock_window) = 60

\* the records of a list that have a title, in order
Titled(ws) == SelectSeq(ws, LAMBDA w : w.title # "")

\* C19: a click on the k-th entry sends, if the connection opens, the one
\* command "[con_id=<id>] focus" with the id of the k-th titled record the
\* last pass read, and sends nothing if the connection fails; whatever the
\* outcome the registry, the strip, the visibility, the pointer and the
\* pending hides are unchanged, and the entry can be clicked again.
C19_ClickFocusesWindow ==
  [][ClickStep =>
       \A k \in DOMAIN strip, conn_ok \in BOOLEAN, cmd_ok \in BOOLEAN :
         Click(k, conn_ok, cmd_ok) =>
           /\ last'.detail = IF conn_ok
                               THEN FocusCommand(Titled(read)[k].id)
                               ELSE "-"
           /\ UNCHANGED <<syncVars, visible, pointer, timers>>
           /\ UiIdle' /\ visible' /\ pointer' = "dock" /\ k \in DOMAIN strip']_vars

\* the entry of the floating window, the third of the strip, has been
\* clicked and its focus command sent
C19_Witness ==
  /\ last.h = "click"
  /\ last.detail = "[con_id=24] focus"
  /\ Len(strip) = 3
  /\ strip[3].window_id = 24
  /\ visible

\* C20: a step of the listener thread leaves the visibility state, the
\* strip and the renderer's position and reads alone; the registry changes
\* in no step but the listener's replace, which installs the list built
\* from the tree; the registry is read in no step but the renderer's, under
\* the guard; and the visibility changes in no step but the enter handler
\* and the hide callback, which run on the UI thread between two passes.
C20_ContextsSeparated ==
  /\ [][Listener => UNCHANGED <<visVars, strip, rpc, idx, read>>]_vars
  /\ [][windows' # windows
          => (ListenerReplace /\ windows' = window_list)]_vars
  /\ [][read' # read => ((RenderLock \/ RenderEntry) /\ lock' = "ui")]_vars
  /\ [][visible' # visible
          => (UiIdle /\ (PointerEntersDetector \/ HideStep))]_vars

\* the listener has replaced the registry after the last pass: the shown
\* dock still has the entries of that pass
C20_Witness ==
  /\ lpc = "recv"
  /\ rpc = "idle"
  /\ visible
  /\ windows # <<>>
  /\ read # <<>>
  /\ windows # read
  /\ strip = Entries(read)
  /\ strip # <<>>

\* C21: as long as the listener has fetched no tree, the registry is empty
\* and so are the strip and what the passes have read; as long as no UI
\* callback has run, the dock is hidden and no hide is pending; and a
\* registry that is not empty is the extraction of a fetched tree.
C21_EmptyAndHiddenAtStartup ==
  /\ fetched = "none" => (windows = <<>> /\ strip = <<>> /\ read = <<>>)
  /\ last.h = "none" => (~visible /\ timers = <<>>)
  /\ windows # <<>> => (fetched # "none" /\ windows \in Snapshots)

\* a pass runs over the empty registry before the listener has fetched the
\* tree, which has windows, and the dock has not been shown yet
C21_Witness ==
  /\ fetched = "none"
  /\ tree = "split"
  /\ rpc = "iter"
  /\ idx = Len(windows)
  /\ strip = <<>>
  /\ ~visible
  /\ last.h = "none"

\* C22: the record of an included node has the node's id, its name as
\* title, its focused flag, and as app_id the node's app_id if there is
\* one, else the class of its window_properties if there is one, else the
\* empty text; a node without app_id or without class is still recorded.
C22_RecordFields ==
  \A i \in DOMAIN arg_node.nodes :
    LET n == arg_node.nodes[i]
    IN (n.node_type = "Con" /\ n.name # None
          /\ (n.app_id # None \/ n.window_properties # None))
         => out_windows =
              << [id |-> n.id,
                  title |-> n.name[1],
                  app_id |-> IF n.app_id # None
                               THEN n.app_id[1]
                               ELSE IF n.window_properties[1].class # None
                                      THEN n.window_properties[1].class[1]
                                      ELSE <<>>,
                  focused |-> n.focused] >>

\* a focused window with window_properties without a class and no app_id is
\* recorded with the empty app_id
C22_Witness ==
  /\ Len(arg_node.nodes) = 1
  /\ arg_node.nodes[1].app_id = None
  /\ arg_node.nodes[1].window_properties = Some([class |-> None])
  /\ arg_node.nodes[1].focused
  /\ Len(out_windows) = 1
  /\ out_windows[1].app_id = <<>>
  /\ out_windows[1].focused
  /\ out_windows[1].id = arg_node.nodes[1].id

\* two letters that are the same but for their case
SameLetter(a, b) ==
  a = b \/ \E i \in DOMAIN Upper : {a, b} = {Upper[i], Lower[i]}

\* key occurs in id, letter case apart
HasKey(id, key) ==
  \E k \in 0..(Len(id) - Len(key)) :
    \A j \in 1..Len(key) : SameLetter(id[k + j], key[j])

\* C23: the icon of an identifier is that of the first of the keys firefox,
\* chrome, terminal, code that occurs in it in any letter case, and the
\* generic executable icon if none occurs, as for the empty identifier.
C23_IconResolution ==
  /\ icon_name =
       IF HasKey(icon_arg, <<"f", "i", "r", "e", "f", "o", "x">>)
         THEN "firefox"
       ELSE IF HasKey(icon_arg, <<"c", "h", "r", "o", "m", "e">>)
         THEN "google-chrome"
       ELSE IF HasKey(icon_arg, <<"t", "e", "r", "m", "i", "n", "a", "l">>)
         THEN "terminal"
       ELSE IF HasKey(icon_arg, <<"c", "o", "d", "e">>)
         THEN "visual-studio-code"
       ELSE "application-x-executable"
  /\ icon_arg = <<>> => icon_name = "application-x-executable"

\* "codeFirefox" holds two keys and capital letters: the firefox icon
C23_Witness ==
  /\ icon_arg = <<"c", "o", "d", "e", "F", "i", "r", "e", "f", "o", "x">>
  /\ icon_name = "firefox"

\* C24: with the pointer over the dock and the detector's enter handler the
\* latest UI callback to have run (no leave since), the dock is not hidden.
C24_NoHideUnderPointer ==
  [][(pointer = "dock" /\ visible /\ last.h = "enter") => visible']_vars

\* C25: when no call fails and the tree is t for good from a moment at
\* which an event waits on the subscription, then from some moment on the
\* registry is the extraction of t, and the passes end with the strip
\* holding the entries of its titled windows again and again.
C25_EventuallyConsistent ==
  \A t \in TreeNames :
    <>(subscribed /\ events > 0 /\ [](tree = t))
      => /\ <>[](windows = extract_windows(TreeOf(t), <<>>))
         /\ <>[](rpc = "idle" => strip = Entries(extract_windows(TreeOf(t), <<>>)))
         /\ []<>(rpc = "idle")

\* the event of the change to the tree with three windows has been handled
\* and a pass has drawn the three entries
C25_Witness ==
  /\ subscribed
  /\ lpc = "recv"
  /\ events = 0
  /\ tree = "split"
  /\ windows = extract_windows(TreeSplit, <<>>)
  /\ rpc = "idle"
  /\ read = windows
  /\ strip = Entries(windows)
  /\ ~poisoned

\* C26: once the listener waits on its subscription with no event left,
\* the registry is the extraction of the window manager's tree, changes
\* made before the subscription included.
C26_StartupChangeReflected ==
  (subscribed /\ lpc = "recv" /\ events = 0)
    => windows = extract_windows(TreeOf(tree), <<>>)

\* C27: an update that ends without a fetched tree leaves the registry as
\* it was and sends the listener on, to the subscribe after the initial
\* update and back to the stream after an event's update; an item of the
\* stream that starts no update leaves the registry as it was and the
\* listener at the stream.
C27_FailedRefreshKeepsRegistry ==
  /\ [][(lpc = "get_tree" /\ lpc' \notin {"get_tree", "lock"})
          => /\ windows' = windows
             /\ lpc' = IF subscribed THEN "recv" ELSE "subscribe"]_vars
  /\ [][(lpc = "recv" /\ events' < events /\ lpc' # "connect")
          => (windows' = windows /\ lpc' = "recv")]_vars

\* the initial fetch has failed, the listener has subscribed all the same
\* and waits for events, the registry still empty
C27_Witness ==
  /\ subscribed
  /\ lpc = "recv"
  /\ fetched = "none"
  /\ windows = <<>>
  /\ tree # "empty"

\* C28: the dock goes from hidden to shown in the detector's enter handler
\* only and from shown to hidden in a hide callback only; no step of the
\* renderer, the listener or the window manager, no click, no leave and no
\* other pointer move changes the visibility; and no pointer step, hide
\* callback or tick changes the registry or the strip.
C28_VisibilityFrame ==
  [][/\ (~visible /\ visible') => PointerEntersDetector
     /\ (visible /\ ~visible') => HideStep
     /\ visible' # visible =>
          ~(Renderer \/ Listener \/ WmChange \/ ClickStep \/ PointerLeavesDock
              \/ PointerLeavesDetector \/ PointerEntersDock \/ TickStep)
     /\ UNCHANGED <<windows, strip>> \/ ~Controller]_vars

\* a qualifying leave has armed a hide and left the dock shown, with its
\* entries and the registry as they were
C28_Witness ==
  /\ last.h = "leave"
  /\ last.detail = "Nonlinear"
  /\ visible
  /\ timers # <<>>
  /\ rpc = "idle"
  /\ strip # <<>>
  /\ strip = Entries(windows)

====
